---- MODULE Spec2Model ----
(***************************************************************************)
(* Career-Clarity: the posting-pattern detector (patternDetector service,  *)
(* the second half of backend/src/controllers/jobController.js) and the    *)
(* stores it reads and writes.                                              *)
(*                                                                         *)
(* Strings that the code inspects character by character (company names,  *)
(* job descriptions) are sequences of one-character strings.  Timestamps   *)
(* are integers counting half days (DayLength of them make a day).         *)
(***************************************************************************)
EXTENDS Integers, Sequences, FiniteSets, TLC

VARIABLES
    table,       \* JOB_PATTERNS_TABLE: the PostingRecords, in the order they were put
    bucket,      \* JOB_DATA_BUCKET: the company-patterns objects, key -> body
    now,         \* the wall clock read by new Date(), in half days
    nextId,      \* the ids uuidv4() has handed out so far, plus one
    pc,          \* per request: where its detectCompanyPatterns call stands
    args,        \* per request: companyData
    local,       \* per request: the locals of detectCompanyPatterns
    outcome,     \* per request: what the call returned or threw
    scan,        \* what the last getSuspiciousCompanies call returned
    normIn,      \* normalizeCompanyName on its own: the raw company string
    normRuns,    \* the keys so far: <<normalize(normIn), normalize(of that)>>
    http,        \* the one request of the analyzeJob route: stage, body, locals, response
    analyses,    \* JOB_ANALYSES_TABLE: the analysis items, in the order they were put
    rulesIn,     \* the pattern rules on their own: history, description and clock
    rulesOut     \* the summaries computed from rulesIn so far

vars == <<table, bucket, now, nextId, pc, args, local, outcome, scan, normIn, normRuns,
          http, analyses, rulesIn, rulesOut>>

(***************************************************************************)
(* Strings                                                                 *)
(***************************************************************************)
\* String.prototype.toLowerCase on one character
LowerOf(c) ==
    CASE c = "A" -> "a" [] c = "B" -> "b" [] c = "C" -> "c" [] c = "D" -> "d"
      [] c = "E" -> "e" [] c = "F" -> "f" [] c = "G" -> "g" [] c = "H" -> "h"
      [] c = "I" -> "i" [] c = "J" -> "j" [] c = "K" -> "k" [] c = "L" -> "l"
      [] c = "M" -> "m" [] c = "N" -> "n" [] c = "O" -> "o" [] c = "P" -> "p"
      [] c = "Q" -> "q" [] c = "R" -> "r" [] c = "S" -> "s" [] c = "T" -> "t"
      [] c = "U" -> "u" [] c = "V" -> "v" [] c = "W" -> "w" [] c = "X" -> "x"
      [] c = "Y" -> "y" [] c = "Z" -> "z" [] OTHER -> c

toLowerCase(s) == [i \in 1..Len(s) |-> LowerOf(s[i])]

\* the regular expression class \s, on the characters the inputs use
IsSpace(c) == c \in {" ", "\t", "\n"}

\* the punctuation class with the comma left out
IsPunctuationNoComma(c) ==
    c \in {".", "/", "#", "!", "$", "%", "^", "&", "*", ";", ":",
           "{", "}", "=", "-", "_", "~", "(", ")"}

\* the punctuation class of normalizeCompanyName's second replace (the
\* backquote, which is also in the class, cannot be written in a TLA+ string
\* and is in no input)
IsPunctuation(c) ==
    c \in {".", ",", "/", "#", "!", "$", "%", "^", "&", "*", ";", ":",
           "{", "}", "=", "-", "_", "~", "(", ")"}

\* s.replace(/\s+/g, ' '): every maximal run of whitespace becomes one space
RECURSIVE CollapseSpaces(_)
CollapseSpaces(s) ==
    IF s = <<>> THEN <<>>
    ELSE IF IsSpace(Head(s))
         THEN IF Len(s) > 1 /\ IsSpace(s[2])
              THEN CollapseSpaces(Tail(s))
              ELSE <<" ">> \o CollapseSpaces(Tail(s))
         ELSE <<Head(s)>> \o CollapseSpaces(Tail(s))

\* s.replace(<punctuation class>, '') with the g flag
StripPunctuation(s) == SelectSeq(s, LAMBDA c : ~IsPunctuation(c))

\* the corporate suffixes of /\s+inc$|\s+corp$|\s+llc$|\s+ltd$/i, lower-cased
SuffixTokens ==
    { <<"i", "n", "c">>, <<"c", "o", "r", "p">>, <<"l", "l", "c">>, <<"l", "t", "d">> }

EndsWith(s, t) ==
    /\ Len(s) >= Len(t)
    /\ SubSeq(s, Len(s) - Len(t) + 1, Len(s)) = t

\* the string without its trailing whitespace
RECURSIVE TrimRight(_)
TrimRight(s) ==
    IF s # <<>> /\ IsSpace(s[Len(s)]) THEN TrimRight(SubSeq(s, 1, Len(s) - 1)) ELSE s

RECURSIVE TrimLeft(_)
TrimLeft(s) ==
    IF s # <<>> /\ IsSpace(Head(s)) THEN TrimLeft(Tail(s)) ELSE s

\* String.prototype.trim
Trim(s) == TrimLeft(TrimRight(s))

\* s.replace(/\s+inc$|\s+corp$|\s+llc$|\s+ltd$/i, ''): no g flag, so the one
\* (leftmost) match is removed: the token that ends the string together with
\* the whole whitespace run before it; a token with no whitespace before it
\* does not match.
StripSuffix(s) ==
    LET low == toLowerCase(s)
        hits == { t \in SuffixTokens :
                    /\ EndsWith(low, t)
                    /\ Len(s) > Len(t)
                    /\ IsSpace(s[Len(s) - Len(t)]) }
    IN  IF hits = {} THEN s
        ELSE LET t == CHOOSE t \in hits : TRUE
             IN  TrimRight(SubSeq(s, 1, Len(s) - Len(t)))

normalizeCompanyName(company) ==
    Trim(StripSuffix(StripPunctuation(CollapseSpaces(toLowerCase(company)))))

(***************************************************************************)
(* Numbers.  A JavaScript number that is a quotient of integers is kept as *)
(* the pair <<numerator, denominator>>, denominator > 0.                   *)
(***************************************************************************)
Min(a, b) == IF a <= b THEN a ELSE b
Abs(a) == IF a < 0 THEN -a ELSE a

\* Math.ceil(n / d), d > 0, n >= 0
CeilDiv(n, d) == (n + d - 1) \div d

\* Math.round(n / d), d > 0: the nearest integer, a half rounding up
RoundDiv(n, d) == (2 * n + d) \div (2 * d)

(***************************************************************************)
(* stringSimilarity.compareTwoStrings (package string-similarity): the     *)
(* Dice coefficient of the two strings' bigrams, whitespace removed.       *)
(***************************************************************************)
RemoveSpaces(s) == SelectSeq(s, LAMBDA c : ~IsSpace(c))

\* the bigrams of s, in order
Bigrams(s) == [i \in 1..(Len(s) - 1) |-> <<s[i], s[i + 1]>>]

\* s without its first occurrence of x
RECURSIVE RemoveFirst(_, _)
RemoveFirst(s, x) ==
    IF s = <<>> THEN <<>>
    ELSE IF Head(s) = x THEN Tail(s) ELSE <<Head(s)>> \o RemoveFirst(Tail(s), x)

Contains(s, x) == \E i \in 1..Len(s) : s[i] = x

\* the bigrams of the second string that find a not yet used bigram of the first
RECURSIVE IntersectionSize(_, _)
IntersectionSize(firstBigrams, secondBigrams) ==
    IF secondBigrams = <<>> THEN 0
    ELSE IF Contains(firstBigrams, Head(secondBigrams))
         THEN 1 + IntersectionSize(RemoveFirst(firstBigrams, Head(secondBigrams)),
                                   Tail(secondBigrams))
         ELSE IntersectionSize(firstBigrams, Tail(secondBigrams))

compareTwoStrings(a, b) ==
    LET first == RemoveSpaces(a)
        second == RemoveSpaces(b)
    IN  IF first = second THEN <<1, 1>>
        ELSE IF Len(first) < 2 \/ Len(second) < 2 THEN <<0, 1>>
        ELSE <<2 * IntersectionSize(Bigrams(first), Bigrams(second)),
               Len(first) + Len(second) - 2>>

(***************************************************************************)
(* Dates.  A Date is a count of half days; 0 stands for a missing value.   *)
(***************************************************************************)
\* the 1000 * 60 * 60 * 24 of daysDifference, in the model's time unit
DayLength == 2

daysDifference(date1, date2) == CeilDiv(Abs(date2 - date1), DayLength)

\* a || b on timestamps
OrElse(a, b) == IF a = 0 THEN b ELSE a

(***************************************************************************)
(* The inputs                                                              *)
(***************************************************************************)
Requests == {"r1", "r2"}

AcmeCommaIncDot == <<"A", "c", "m", "e", ",", " ", "I", "n", "c", ".">>
AcmeLowerInc == <<"a", "c", "m", "e", " ", "i", "n", "c">>
AcmeUpperSpaced == <<"A", "C", "M", "E", " ", " ", " ", "I", "N", "C">>
AcmeUpperInc == <<"A", "C", "M", "E", " ", "I", "N", "C">>
AcmeBare == <<"a", "c", "m", "e">>
GlobexCorp == <<"G", "l", "o", "b", "e", "x", " ", "C", "o", "r", "p">>

ConstructorLtd == <<"C", "o", "n", "s", "t", "r", "u", "c", "t", "o", "r", " ", "L", "t", "d">>

AcmeNames == {AcmeCommaIncDot, AcmeLowerInc, AcmeUpperSpaced, AcmeUpperInc, AcmeBare}
Companies == AcmeNames \cup {GlobexCorp}

Users == {"auth0|u1"}

\* 21 letters: 20 bigrams once the whitespace is removed
DescBase ==
    <<"A", "b", "c", "d", "e", " ", "f", "g", "h", "i", "j", " ",
      "k", "l", "m", "n", "o", " ", "p", "q", "r", "s", "t", "u">>
\* the last letter differs: 19 of the 20 bigrams are shared, similarity 38/40
DescNear ==
    <<"a", "b", "c", "d", "e", " ", "f", "g", "h", "i", "j", " ",
      "k", "l", "m", "n", "o", " ", "p", "q", "r", "s", "t", "z">>
\* the first letter and one inner letter differ: 17 shared, similarity 34/40
DescEdge ==
    <<"z", "b", "c", "d", "e", " ", "f", "g", "h", "i", "j", " ",
      "z", "l", "m", "n", "o", " ", "p", "q", "r", "s", "t", "u">>
\* nothing shared
DescFar == <<"W", "x", "y", " ", "w", "x">>

Descriptions == {DescBase, DescNear, DescEdge, DescFar}

(***************************************************************************)
(* detectCompanyPatterns: the code between the history read and the put    *)
(***************************************************************************)
SIMILARITY_THRESHOLD == <<85, 100>>
SUSPICIOUS_REPOST_DAYS == 90

\* x > y on quotients
GreaterThan(x, y) == x[1] * y[2] > y[1] * x[2]

\* compareTwoStrings(jobDescription.toLowerCase(), posting.jobDescription.toLowerCase())
\* for the descriptions of the model, computed once
SimilarityTable ==
    [a \in Descriptions |->
        [b \in Descriptions |-> compareTwoStrings(toLowerCase(a), toLowerCase(b))]]

Similarity(jobDescription, posting) == SimilarityTable[jobDescription][posting.jobDescription]

\* similarity >= SIMILARITY_THRESHOLD
AtOrAboveThreshold(similarity) == ~GreaterThan(SIMILARITY_THRESHOLD, similarity)

\* similarity > SIMILARITY_THRESHOLD
AboveThreshold(similarity) == GreaterThan(similarity, SIMILARITY_THRESHOLD)

\* the history taken in the order the store returned it
KeepOrder(h) == h

\* [...companyHistory].sort((a, b) => new Date(a.firstSeen) - new Date(b.firstSeen))
RECURSIVE InsertByFirstSeen(_, _)
InsertByFirstSeen(sorted, r) ==
    IF sorted = <<>> THEN <<r>>
    ELSE IF r.firstSeen < Head(sorted).firstSeen THEN <<r>> \o sorted
         ELSE <<Head(sorted)>> \o InsertByFirstSeen(Tail(sorted), r)

RECURSIVE SortByFirstSeen(_)
SortByFirstSeen(h) ==
    IF h = <<>> THEN <<>>
    ELSE InsertByFirstSeen(SortByFirstSeen(SubSeq(h, 1, Len(h) - 1)), h[Len(h)])

\* the loop that adds up the days between consecutive postings
RECURSIVE TotalDays(_)
TotalDays(sortedByDate) ==
    IF Len(sortedByDate) < 2 THEN 0
    ELSE daysDifference(sortedByDate[1].firstSeen, sortedByDate[2].firstSeen)
         + TotalDays(Tail(sortedByDate))

AveragePostingFrequency(companyHistory) ==
    IF Len(companyHistory) > 1
    THEN RoundDiv(TotalDays(SortByFirstSeen(companyHistory)), Len(companyHistory) - 1)
    ELSE 0

\* one entry of similarJobs
SimilarJob(posting, similarity) ==
    [id |-> posting.id,
     jobTitle |-> posting.jobTitle,
     similarity |-> RoundDiv(similarity[1] * 100, similarity[2]),
     firstSeen |-> posting.firstSeen,
     lastSeen |-> posting.lastSeen]

\* the similarJobs the loop over companyHistory collects
RECURSIVE SimilarJobs(_, _)
SimilarJobs(companyHistory, jobDescription) ==
    IF companyHistory = <<>> THEN <<>>
    ELSE LET posting == Head(companyHistory)
             similarity == Similarity(jobDescription, posting)
         IN  (IF AboveThreshold(similarity)
              THEN <<SimilarJob(posting, similarity)>> ELSE <<>>)
             \o SimilarJobs(Tail(companyHistory), jobDescription)

\* the longest time from a posting's firstSeen to the clock, whatever its lastSeen
RECURSIVE LongestOpenDaysToNow(_, _)
LongestOpenDaysToNow(companyHistory, clock) ==
    IF companyHistory = <<>> THEN 0
    ELSE LET posting == companyHistory[Len(companyHistory)]
             before == LongestOpenDaysToNow(SubSeq(companyHistory, 1, Len(companyHistory) - 1), clock)
             openDays == daysDifference(posting.firstSeen, clock)
         IN  IF openDays > before THEN openDays ELSE before

\* the longestOpenDays the same loop tracks
RECURSIVE LongestOpenDays(_, _)
LongestOpenDays(companyHistory, clock) ==
    IF companyHistory = <<>> THEN 0
    ELSE LET posting == companyHistory[Len(companyHistory)]
             before == LongestOpenDays(SubSeq(companyHistory, 1, Len(companyHistory) - 1), clock)
             openDays == daysDifference(posting.firstSeen, OrElse(posting.lastSeen, clock))
         IN  IF openDays > before THEN openDays ELSE before

\* the patterns object as first built, with the fields the loops fill in
InitialPatterns(normalizedCompany, companyHistory, jobDescription, clock) ==
    [companyName |-> normalizedCompany,
     recentPostings |-> Len(companyHistory),
     similarJobCount |-> Len(SimilarJobs(companyHistory, jobDescription)),
     longestOpenDays |-> LongestOpenDays(companyHistory, clock),
     recycledDescriptions |-> FALSE,
     averagePostingFrequency |-> AveragePostingFrequency(companyHistory),
     suspiciousPatterns |-> <<>>,
     confidenceScore |-> 10]

\* the open-duration rule with a deduction of 4
OpenDurationRuleFour(patterns) ==
    IF patterns.longestOpenDays > SUSPICIOUS_REPOST_DAYS
    THEN [patterns EXCEPT
            !.suspiciousPatterns =
                Append(@, [text |-> "Position open for N days without being filled",
                           n |-> patterns.longestOpenDays]),
            !.confidenceScore = @ - 4]
    ELSE patterns

\* if (patterns.longestOpenDays > SUSPICIOUS_REPOST_DAYS) ...
OpenDurationRule(patterns) ==
    IF patterns.longestOpenDays > SUSPICIOUS_REPOST_DAYS
    THEN [patterns EXCEPT
            !.suspiciousPatterns =
                Append(@, [text |-> "Position open for N days without being filled",
                           n |-> patterns.longestOpenDays]),
            !.confidenceScore = @ - 2]
    ELSE patterns

\* the recycled-descriptions rule with confidenceScore =- 2 for -= 2
RecycledRuleAssign(patterns) ==
    IF patterns.similarJobCount > 3
    THEN [patterns EXCEPT
            !.recycledDescriptions = TRUE,
            !.suspiciousPatterns =
                Append(@, [text |-> "Multiple similar job postings (N) detected",
                           n |-> patterns.similarJobCount]),
            !.confidenceScore = -2]
    ELSE patterns

\* if (patterns.similarJobCount > 3) ...
RecycledRule(patterns) ==
    IF patterns.similarJobCount > 3
    THEN [patterns EXCEPT
            !.recycledDescriptions = TRUE,
            !.suspiciousPatterns =
                Append(@, [text |-> "Multiple similar job postings (N) detected",
                           n |-> patterns.similarJobCount]),
            !.confidenceScore = @ - 2]
    ELSE patterns

\* the frequency rule without its recentPostings > 5 condition
FrequencyRuleNoCount(patterns) ==
    IF patterns.averagePostingFrequency < 7
    THEN [patterns EXCEPT
            !.suspiciousPatterns =
                Append(@, [text |-> "Unusually high frequency of new job postings"]),
            !.confidenceScore = @ - 1]
    ELSE patterns

\* if (patterns.averagePostingFrequency < 7 && patterns.recentPostings > 5) ...
FrequencyRule(patterns) ==
    IF patterns.averagePostingFrequency < 7 /\ patterns.recentPostings > 5
    THEN [patterns EXCEPT
            !.suspiciousPatterns =
                Append(@, [text |-> "Unusually high frequency of new job postings"]),
            !.confidenceScore = @ - 1]
    ELSE patterns

\* the rules with a return after the first that fires
PatternsEarlyExit(normalizedCompany, companyHistory, jobDescription, clock) ==
    LET initial == InitialPatterns(normalizedCompany, companyHistory, jobDescription, clock)
    IN  IF OpenDurationRule(initial) # initial THEN OpenDurationRule(initial)
        ELSE IF RecycledRule(initial) # initial THEN RecycledRule(initial)
        ELSE FrequencyRule(initial)

Patterns(normalizedCompany, companyHistory, jobDescription, clock) ==
    FrequencyRule(RecycledRule(OpenDurationRule(
        InitialPatterns(normalizedCompany, companyHistory, jobDescription, clock))))

\* the Item with lastSeen left unset
ItemNoLastSeen(companyData, normalizedCompany, similarJobs, jobId, timestamp) ==
    [id |-> jobId,
     companyName |-> normalizedCompany,
     jobTitle |-> companyData.jobTitle,
     location |-> companyData.location,
     jobDescription |-> companyData.jobDescription,
     firstSeen |-> timestamp,
     lastSeen |-> 0,
     similarJobs |-> [i \in 1..Len(similarJobs) |-> similarJobs[i].id],
     userId |-> IF companyData.userId = "" THEN "anonymous" ELSE companyData.userId]

\* the Item of the dynamoDb.put
Item(companyData, normalizedCompany, similarJobs, jobId, timestamp) ==
    [id |-> jobId,
     companyName |-> normalizedCompany,
     jobTitle |-> companyData.jobTitle,
     location |-> companyData.location,
     jobDescription |-> companyData.jobDescription,
     firstSeen |-> timestamp,
     lastSeen |-> timestamp,
     similarJobs |-> [i \in 1..Len(similarJobs) |-> similarJobs[i].id],
     userId |-> IF companyData.userId = "" THEN "anonymous" ELSE companyData.userId]

\* a put keyed by company and title: it replaces the company's record of that title
TablePutByCompanyTitle(items, item) ==
    IF \E i \in 1..Len(items) :
          items[i].companyName = item.companyName /\ items[i].jobTitle = item.jobTitle
    THEN [i \in 1..Len(items) |->
            IF items[i].companyName = item.companyName /\ items[i].jobTitle = item.jobTitle
            THEN item ELSE items[i]]
    ELSE Append(items, item)

\* dynamoDb.put on the table, whose key is id: a new item, or the item of that id replaced
TablePut(items, item) ==
    IF \E i \in 1..Len(items) : items[i].id = item.id
    THEN [i \in 1..Len(items) |-> IF items[i].id = item.id THEN item ELSE items[i]]
    ELSE Append(items, item)

\* a query with no key condition: every item of the table
getCompanyPostingHistoryAll(items, companyName) == items

\* getCompanyPostingHistory: the query on CompanyNameIndex
getCompanyPostingHistory(items, companyName) ==
    SelectSeq(items, LAMBDA r : r.companyName = companyName)

\* Key and Body of the s3.putObject
SnapshotKey(normalizedCompany, timestamp) == <<"company-patterns", normalizedCompany, timestamp>>

SnapshotBody(normalizedCompany, patterns, similarJobs, timestamp) ==
    [company |-> normalizedCompany,
     patterns |-> patterns,
     similarJobs |-> similarJobs,
     timestamp |-> timestamp]

\* the bucket once the object is stored: an object under the same key is replaced
PutObject(objects, key, body) ==
    [k \in DOMAIN objects \cup {key} |-> IF k = key THEN body ELSE objects[k]]

\* the locals with an id counted from the history instead of a fresh uuid
ComputedCountId(companyData, normalizedCompany, items, clock, id) ==
    [companyHistory |-> items,
     patterns |-> Patterns(normalizedCompany, items, companyData.jobDescription, clock),
     similarJobs |-> SimilarJobs(items, companyData.jobDescription),
     jobId |-> Len(items) + 1,
     timestamp |-> clock]

\* what detectCompanyPatterns holds once the query has answered with items:
\* everything up to const timestamp = new Date().toISOString()
Computed(companyData, normalizedCompany, items, clock, id) ==
    [companyHistory |-> items,
     patterns |-> Patterns(normalizedCompany, items, companyData.jobDescription, clock),
     similarJobs |-> SimilarJobs(items, companyData.jobDescription),
     jobId |-> id,
     timestamp |-> clock]

\* return { id: jobId, patterns, similarJobs, timestamp }
Returned(l) ==
    [kind |-> "ok",
     id |-> l.jobId,
     patterns |-> l.patterns,
     similarJobs |-> l.similarJobs,
     timestamp |-> l.timestamp]

\* a catch block that answers with a default summary instead of rethrowing
CatchFallback(error) ==
    [kind |-> "ok", id |-> 0,
     patterns |-> [recentPostings |-> 0, similarJobCount |-> 0, confidenceScore |-> 10],
     similarJobs |-> <<>>, timestamp |-> 0]

\* catch (error) { console.error(...); throw error; }
CatchRethrow(error) == [kind |-> "error", error |-> error]

(***************************************************************************)
(* Stores the program can have built: a run of requests, one after the     *)
(* other, none failing.                                                    *)
(***************************************************************************)
EmptyBucket == [k \in {} |-> 0]

\* one whole detectCompanyPatterns call on the store st, at time st.now
RunCall(st, companyData) ==
    LET normalizedCompany == normalizeCompanyName(companyData.company)
        c == Computed(companyData, normalizedCompany,
                      getCompanyPostingHistory(st.table, normalizedCompany),
                      st.now, st.nextId)
    IN  [table |-> TablePut(st.table,
                            Item(companyData, normalizedCompany, c.similarJobs,
                                 c.jobId, c.timestamp)),
         bucket |-> PutObject(st.bucket,
                              SnapshotKey(normalizedCompany, c.timestamp),
                              SnapshotBody(normalizedCompany, c.patterns,
                                           c.similarJobs, c.timestamp)),
         now |-> st.now,
         nextId |-> st.nextId + 1]

\* the calls of script in turn, the clock advanced by each step's wait first
RECURSIVE Replay(_, _)
Replay(st, script) ==
    IF script = <<>> THEN st
    ELSE Replay(RunCall([st EXCEPT !.now = @ + Head(script).wait], Head(script).data),
                Tail(script))

(***************************************************************************)
(* getSuspiciousCompanies.  A number is a quotient <<n, d>>; NaN is the    *)
(* quotient with denominator 0.  A JavaScript Set is its elements in       *)
(* insertion order, tagged "Set"; an Array is tagged "Array".              *)
(***************************************************************************)
NaN == <<0, 0>>
IsNaN(x) == x[2] = 0

\* x / n, n a positive integer
DividedBy(x, n) == IF IsNaN(x) THEN NaN ELSE <<x[1], x[2] * n>>

\* x < y: false when either side is NaN
LessThan(x, y) == ~IsNaN(x) /\ ~IsNaN(y) /\ x[1] * y[2] < y[1] * x[2]

Plus(x, y) == IF IsNaN(x) \/ IsNaN(y) THEN NaN ELSE <<x[1] * y[2] + y[1] * x[2], x[2] * y[2]>>

NewSet == [kind |-> "Set", items |-> <<>>]

\* set.add(x)
SetAdd(set, x) ==
    IF \E i \in 1..Len(set.items) : set.items[i] = x
    THEN set ELSE [set EXCEPT !.items = Append(@, x)]

\* Array.from(set)
ArrayFrom(set) == set.items

\* v.length: the element count of an Array; a Set has no length property,
\* so the read gives undefined, which arithmetic turns into NaN
LengthProperty(v) == IF v.kind = "Array" THEN <<Len(v.items), 1>> ELSE NaN

\* v.size, the property a Set does have
SizeProperty(v) == IF v.kind = "Set" THEN <<Len(v.items), 1>> ELSE NaN

\* calculateSuspicionScore as it would be with company.titles.size
calculateSuspicionScoreWithSize(company) ==
    LET first == <<Min(20, company.similarPostingsCount), 2>>
        titleRatio == DividedBy(SizeProperty(company.titles), company.postingCount)
        score == IF LessThan(titleRatio, <<1, 2>>) /\ company.postingCount > 5
                 THEN Plus(first, <<5 * (titleRatio[2] - titleRatio[1]), titleRatio[2]>>)
                 ELSE first
    IN  RoundDiv(score[1], score[2])

\* company is the companyMap entry: its titles are still the Set
calculateSuspicionScore(company) ==
    LET first == <<Min(20, company.similarPostingsCount), 2>>     \* Math.min(10, n / 2)
        titleRatio == DividedBy(LengthProperty(company.titles), company.postingCount)
        score == IF LessThan(titleRatio, <<1, 2>>) /\ company.postingCount > 5
                 THEN Plus(first, <<5 * (titleRatio[2] - titleRatio[1]), titleRatio[2]>>)
                 ELSE first
    IN  RoundDiv(score[1], score[2])

\* FilterExpression: 'size(similarJobs) > :threshold', threshold 3
ScanFilter(items) == SelectSeq(items, LAMBDA r : Len(r.similarJobs) > 3)

\* companyMap = {} is a plain object: before any key is added it already
\* answers to the property names it inherits from Object.prototype
ObjectPrototypeKeys ==
    { <<"c", "o", "n", "s", "t", "r", "u", "c", "t", "o", "r">>,
      <<"t", "o", "S", "t", "r", "i", "n", "g">>,
      <<"v", "a", "l", "u", "e", "O", "f">>,
      <<"_", "_", "p", "r", "o", "t", "o", "_", "_">> }

\* for such a companyName companyMap[item.companyName] is the inherited value,
\* no group is created, and .locations.add is a call on undefined: a TypeError
GroupingThrows(items) ==
    \E i \in 1..Len(items) : items[i].companyName \in ObjectPrototypeKeys

\* companyMap after one more item: the groups in the order their keys were added
AddToCompanyMap(companyMap, item) ==
    LET withKey ==
            IF \E i \in 1..Len(companyMap) : companyMap[i].companyName = item.companyName
            THEN companyMap
            ELSE Append(companyMap,
                        [companyName |-> item.companyName,
                         postingCount |-> 0,
                         similarPostingsCount |-> 0,
                         locations |-> NewSet,
                         titles |-> NewSet])
    IN  [i \in 1..Len(withKey) |->
            IF withKey[i].companyName = item.companyName
            THEN [withKey[i] EXCEPT
                    !.postingCount = @ + 1,
                    !.similarPostingsCount = @ + Len(item.similarJobs),
                    !.locations = SetAdd(@, item.location),
                    !.titles = SetAdd(@, item.jobTitle)]
            ELSE withKey[i]]

RECURSIVE CompanyMap(_)
CompanyMap(items) ==
    IF items = <<>> THEN <<>>
    ELSE AddToCompanyMap(CompanyMap(SubSeq(items, 1, Len(items) - 1)), items[Len(items)])

\* the object the map callback builds
SuspicionEntry(company) ==
    [companyName |-> company.companyName,
     postingCount |-> company.postingCount,
     similarPostingsCount |-> company.similarPostingsCount,
     locations |-> ArrayFrom(company.locations),
     titles |-> ArrayFrom(company.titles),
     suspicionScore |-> calculateSuspicionScore(company)]

\* inserting e into entries already sorted by (a, b) => a.suspicionScore - b.suspicionScore
RECURSIVE InsertAscending(_, _)
InsertAscending(sorted, e) ==
    IF sorted = <<>> THEN <<e>>
    ELSE IF e.suspicionScore < Head(sorted).suspicionScore THEN <<e>> \o sorted
         ELSE <<Head(sorted)>> \o InsertAscending(Tail(sorted), e)

\* inserting e into entries already sorted by (a, b) => b.suspicionScore - a.suspicionScore:
\* after every entry whose score is not lower (the sort is stable)
RECURSIVE InsertDescending(_, _)
InsertDescending(sorted, e) ==
    IF sorted = <<>> THEN <<e>>
    ELSE IF e.suspicionScore > Head(sorted).suspicionScore THEN <<e>> \o sorted
         ELSE <<Head(sorted)>> \o InsertDescending(Tail(sorted), e)

RECURSIVE SortBySuspicion(_)
SortBySuspicion(entries) ==
    IF entries = <<>> THEN <<>>
    ELSE InsertDescending(SortBySuspicion(SubSeq(entries, 1, Len(entries) - 1)),
                          entries[Len(entries)])

getSuspiciousCompanies(items) ==
    LET companyMap == CompanyMap(ScanFilter(items))
    IN  SortBySuspicion([i \in 1..Len(companyMap) |-> SuspicionEntry(companyMap[i])])

(***************************************************************************)
(* The requests.  A request is one detectCompanyPatterns(companyData) call *)
(* made by the controller once it has checked that title, company and     *)
(* description are present; the call moves at its awaits.                  *)
(***************************************************************************)
MaxSeed == 6
MaxTicks == 1

NoArgs == [company |-> <<>>, jobTitle |-> "", location |-> "", jobDescription |-> <<>>,
           userId |-> ""]

NoLocal ==
    [normalizedCompany |-> <<>>, companyHistory |-> <<>>, patterns |-> <<>>,
     similarJobs |-> <<>>, jobId |-> 0, timestamp |-> 0,
     issued |-> <<>>]           \* the store requests the call has sent, in order

NoOutcome == [kind |-> "none"]
NoScan == [status |-> "none"]

Submissions ==
    [company : Companies, jobTitle : {"Engineer"}, location : {"Remote"},
     jobDescription : {DescBase, DescNear}, userId : Users]

\* the store before the requests: the first n postings of one company's past,
\* submitted under its various spellings half a day apart
AcmeSpellings == <<AcmeCommaIncDot, AcmeLowerInc, AcmeUpperSpaced, AcmeUpperInc, AcmeBare>>

PastPosting(i) ==
    [wait |-> 1,
     data |-> [company |-> AcmeSpellings[((i - 1) % Len(AcmeSpellings)) + 1],
               jobTitle |-> "Engineer",
               location |-> "Remote",
               jobDescription |-> IF i <= 4 THEN DescBase
                                  ELSE IF i = 5 THEN DescEdge ELSE DescFar,
               userId |-> "auth0|u1"]]

NewStore(clock) == [table |-> <<>>, bucket |-> EmptyBucket, now |-> clock, nextId |-> 1]

Past(n) == Replay(NewStore(MaxSeed - n), [i \in 1..n |-> PastPosting(i)])

\* the stores the requests start from: new, a short past, the whole past
PastSizes == {0, 3, MaxSeed}

\* a field of the request body: absent, the empty string, or a text
Undefined == [kind |-> "undefined"]
EmptyText == [kind |-> "empty"]
Text(v) == [kind |-> "text", value |-> v]

NoBody == [jobTitle |-> Undefined, company |-> Undefined, location |-> Undefined,
           jobDescription |-> Undefined]

NoResponse == [status |-> 0]

NoHttp ==
    [stage |-> "idle", body |-> NoBody, jobData |-> NoArgs,
     analysisJson |-> [kind |-> "none"], analysisId |-> 0, timestamp |-> 0,
     issued |-> <<>>,           \* the collaborators the request has called, in order
     response |-> NoResponse]

ControllerIdle ==
    /\ http = NoHttp
    /\ analyses = <<>>

RulesIdle ==
    /\ rulesIn = <<>>
    /\ rulesOut = <<>>

NormIdle ==
    /\ normIn = <<>>
    /\ normRuns = <<>>

Init ==
    /\ \E n \in PastSizes :
        LET st == Past(n)
        IN  /\ table = st.table
            /\ bucket = st.bucket
            /\ now = st.now
            /\ nextId = st.nextId
    /\ pc = [r \in Requests |-> "idle"]
    /\ args = [r \in Requests |-> NoArgs]
    /\ local = [r \in Requests |-> NoLocal]
    /\ outcome = [r \in Requests |-> NoOutcome]
    /\ scan = NoScan
    /\ NormIdle
    /\ ControllerIdle
    /\ RulesIdle

\* detectCompanyPatterns is called: the name is normalized and the query sent
Invoke(r, companyData) ==
    /\ pc[r] = "idle"
    /\ args' = [args EXCEPT ![r] = companyData]
    /\ local' = [local EXCEPT ![r] =
                    [NoLocal EXCEPT
                        !.normalizedCompany = normalizeCompanyName(companyData.company),
                        !.issued = <<"query">>]]
    /\ pc' = [pc EXCEPT ![r] = "query"]
    /\ UNCHANGED <<http, analyses, rulesIn, rulesOut, table, bucket, now, nextId, outcome, scan, normIn, normRuns>>

\* the query answers: patterns are computed, the id and the timestamp drawn,
\* and the put of the new record sent
QueryOk(r) ==
    /\ pc[r] = "query"
    /\ LET c == Computed(args[r], local[r].normalizedCompany,
                         getCompanyPostingHistory(table, local[r].normalizedCompany),
                         now, nextId)
       IN  local' = [local EXCEPT ![r] =
                        [@ EXCEPT !.companyHistory = c.companyHistory,
                                  !.patterns = c.patterns,
                                  !.similarJobs = c.similarJobs,
                                  !.jobId = c.jobId,
                                  !.timestamp = c.timestamp,
                                  !.issued = Append(@, "put")]]
    /\ nextId' = nextId + 1
    /\ pc' = [pc EXCEPT ![r] = "put"]
    /\ UNCHANGED <<http, analyses, rulesIn, rulesOut, table, bucket, now, args, outcome, scan, normIn, normRuns>>

\* the query rejects: the catch block rethrows
QueryFail(r) ==
    /\ pc[r] = "query"
    /\ outcome' = [outcome EXCEPT ![r] = CatchRethrow("query failed")]
    /\ pc' = [pc EXCEPT ![r] = "thrown"]
    /\ UNCHANGED <<http, analyses, rulesIn, rulesOut, table, bucket, now, nextId, args, local, scan, normIn, normRuns>>

\* the put succeeds: the record is in the table, the putObject is sent
PutOk(r) ==
    /\ pc[r] = "put"
    /\ table' = TablePut(table, Item(args[r], local[r].normalizedCompany,
                                     local[r].similarJobs, local[r].jobId,
                                     local[r].timestamp))
    /\ local' = [local EXCEPT ![r].issued = Append(@, "putObject")]
    /\ pc' = [pc EXCEPT ![r] = "putObject"]
    /\ UNCHANGED <<http, analyses, rulesIn, rulesOut, bucket, now, nextId, args, outcome, scan, normIn, normRuns>>

\* the put rejects
PutFail(r) ==
    /\ pc[r] = "put"
    /\ outcome' = [outcome EXCEPT ![r] = CatchRethrow("put failed")]
    /\ pc' = [pc EXCEPT ![r] = "thrown"]
    /\ UNCHANGED <<http, analyses, rulesIn, rulesOut, table, bucket, now, nextId, args, local, scan, normIn, normRuns>>

\* the putObject succeeds: the call returns
PutObjectOk(r) ==
    /\ pc[r] = "putObject"
    /\ bucket' = PutObject(bucket,
                           SnapshotKey(local[r].normalizedCompany, local[r].timestamp),
                           SnapshotBody(local[r].normalizedCompany, local[r].patterns,
                                        local[r].similarJobs, local[r].timestamp))
    /\ outcome' = [outcome EXCEPT ![r] = Returned(local[r])]
    /\ pc' = [pc EXCEPT ![r] = "returned"]
    /\ UNCHANGED <<http, analyses, rulesIn, rulesOut, table, now, nextId, args, local, scan, normIn, normRuns>>

\* the putObject rejects
PutObjectFail(r) ==
    /\ pc[r] = "putObject"
    /\ outcome' = [outcome EXCEPT ![r] = CatchRethrow("putObject failed")]
    /\ pc' = [pc EXCEPT ![r] = "thrown"]
    /\ UNCHANGED <<http, analyses, rulesIn, rulesOut, table, bucket, now, nextId, args, local, scan, normIn, normRuns>>

\* half a day passes
Tick ==
    /\ now < MaxSeed + MaxTicks
    /\ now' = now + 1
    /\ UNCHANGED <<http, analyses, rulesIn, rulesOut, table, bucket, nextId, pc, args, local, outcome, scan, normIn, normRuns>>

Next ==
    \/ \E r \in Requests, companyData \in Submissions : Invoke(r, companyData)
    \/ \E r \in Requests : QueryOk(r)
    \/ \E r \in Requests : QueryFail(r)
    \/ \E r \in Requests : PutOk(r)
    \/ \E r \in Requests : PutFail(r)
    \/ \E r \in Requests : PutObjectOk(r)
    \/ \E r \in Requests : PutObjectFail(r)
    \/ Tick

Spec == Init /\ [][Next]_vars

(***************************************************************************)
(* getSuspiciousCompanies over the stores two companies' pasts leave       *)
(***************************************************************************)
MaxPostings == 10

TitleCycle == <<"Engineer", "Analyst", "Manager">>
LocationCycle == <<"Remote", "Berlin">>

\* the i-th posting of a company that rotates through its first k titles
CompanyPosting(company, k, i) ==
    [wait |-> 1,
     data |-> [company |-> company,
               jobTitle |-> TitleCycle[((i - 1) % k) + 1],
               location |-> LocationCycle[((i - 1) % Len(LocationCycle)) + 1],
               jobDescription |-> DescBase,
               userId |-> "auth0|u1"]]

\* nA postings of one company, then nB of another
PastWith(other, nA, kA, nB, kB) ==
    Replay(NewStore(0),
           [i \in 1..nA |-> CompanyPosting(AcmeCommaIncDot, kA, i)]
           \o [i \in 1..nB |-> CompanyPosting(other, kB, i)])

TwoCompanyPast(nA, kA, nB, kB) == PastWith(GlobexCorp, nA, kA, nB, kB)

\* the second company of the store
FleetOthers == {GlobexCorp, ConstructorLtd}

InitFleet ==
    /\ \E nA \in 0..MaxPostings, nB \in 0..MaxPostings,
          kA \in 1..Len(TitleCycle), kB \in 1..Len(TitleCycle),
          other \in FleetOthers :
        LET st == IF other = GlobexCorp THEN TwoCompanyPast(nA, kA, nB, kB)
                  ELSE PastWith(other, nA, kA, nB, kB)
        IN  /\ table = st.table
            /\ bucket = st.bucket
            /\ now = st.now
            /\ nextId = st.nextId
    /\ pc = [r \in Requests |-> "idle"]
    /\ args = [r \in Requests |-> NoArgs]
    /\ local = [r \in Requests |-> NoLocal]
    /\ outcome = [r \in Requests |-> NoOutcome]
    /\ scan = NoScan
    /\ NormIdle
    /\ ControllerIdle
    /\ RulesIdle

\* the scan answers: the ranked companies are returned, unless the grouping
\* loop throws
ScanOk ==
    /\ scan' = IF GroupingThrows(ScanFilter(table))
               THEN [status |-> "error", error |-> "TypeError"]
               ELSE [status |-> "ok", companies |-> getSuspiciousCompanies(table)]
    /\ UNCHANGED <<http, analyses, rulesIn, rulesOut, table, bucket, now, nextId, pc, args, local, outcome, normIn, normRuns>>

\* the scan rejects: nothing catches it, the call rejects
ScanFail ==
    /\ scan' = [status |-> "error", error |-> "scan failed"]
    /\ UNCHANGED <<http, analyses, rulesIn, rulesOut, table, bucket, now, nextId, pc, args, local, outcome, normIn, normRuns>>

NextFleet == ScanOk \/ ScanFail

SpecFleet == InitFleet /\ [][NextFleet]_vars

(***************************************************************************)
(* normalizeCompanyName on its own: raw names made of a few tokens         *)
(***************************************************************************)
MaxTokens == 4

NameTokens ==
    { <<"A", "c", "m", "e">>, <<"a", "c", "m", "e">>, <<" ">>, <<",">>, <<".">>,
      <<"I", "n", "c">>, <<"i", "n", "c">>, <<"L", "T", "D">> }

RECURSIVE Flatten(_)
Flatten(ts) == IF ts = <<>> THEN <<>> ELSE Head(ts) \o Flatten(Tail(ts))

RawNames ==
    { Flatten(ts) : ts \in UNION { [1..n -> NameTokens] : n \in 0..MaxTokens } }

RequestsIdle ==
    /\ table = <<>>
    /\ bucket = EmptyBucket
    /\ now = 1
    /\ nextId = 1
    /\ pc = [r \in Requests |-> "idle"]
    /\ args = [r \in Requests |-> NoArgs]
    /\ local = [r \in Requests |-> NoLocal]
    /\ outcome = [r \in Requests |-> NoOutcome]
    /\ scan = NoScan

InitNorm ==
    /\ normIn \in RawNames
    /\ normRuns = <<>>
    /\ RequestsIdle
    /\ ControllerIdle
    /\ RulesIdle

\* key = normalizeCompanyName(raw)
Normalize ==
    /\ normRuns = <<>>
    /\ normRuns' = <<normalizeCompanyName(normIn)>>
    /\ UNCHANGED <<http, analyses, rulesIn, rulesOut, table, bucket, now, nextId, pc, args, local, outcome, scan, normIn>>

\* the key normalized again
NormalizeAgain ==
    /\ Len(normRuns) = 1
    /\ normRuns' = Append(normRuns, normalizeCompanyName(normRuns[1]))
    /\ UNCHANGED <<http, analyses, rulesIn, rulesOut, table, bucket, now, nextId, pc, args, local, outcome, scan, normIn>>

NextNorm == Normalize \/ NormalizeAgain

SpecNorm == InitNorm /\ [][NextNorm]_vars

(***************************************************************************)
(* The analyzeJob route: validation, jobAnalyzer.analyzeJob, then          *)
(* detectCompanyPatterns, then the response.  One request, whose           *)
(* detectCompanyPatterns call is the call Slot of the requests above.      *)
(***************************************************************************)
Slot == "r1"

\* !v is false exactly for a non-empty string
Truthy(v) == v.kind = "text"

\* a validation that also requires the location
IsValidWithLocation(body) ==
    /\ Truthy(body.jobTitle)
    /\ Truthy(body.company)
    /\ Truthy(body.jobDescription)
    /\ Truthy(body.location)

\* !(!jobTitle || !company || !jobDescription)
IsValid(body) ==
    /\ Truthy(body.jobTitle)
    /\ Truthy(body.company)
    /\ Truthy(body.jobDescription)

Bodies ==
    [jobTitle : {Undefined, EmptyText, Text("Engineer")},
     company : {Undefined, EmptyText, Text(AcmeBare)},
     location : {Undefined, EmptyText, Text("Remote")},
     jobDescription : {Undefined, EmptyText, Text(DescBase)}]

\* { jobTitle, company, location, jobDescription, userId } of a valid body; an
\* absent or empty location is carried as the empty text
JobData(body, userId) ==
    [company |-> body.company.value,
     jobTitle |-> body.jobTitle.value,
     location |-> IF Truthy(body.location) THEN body.location.value ELSE "",
     jobDescription |-> body.jobDescription.value,
     userId |-> userId]

BadRequest ==
    [status |-> 400, success |-> FALSE,
     message |-> "Job title, company, and description are required"]

ServerError(message) == [status |-> 500, success |-> FALSE, message |-> message]

\* what the judge may answer: text that is no JSON, the JSON null, or an object
\* whose authenticityScore is a number, a string or absent
Num(n) == [kind |-> "number", value |-> n]

JudgeScores == {Num(7), Num(15), Num(0), [kind |-> "string", value |-> "high"], Undefined}

JudgeTexts ==
    {[kind |-> "garbage"], [kind |-> "null"]}
    \cup {[kind |-> "object", authenticityScore |-> sc, redFlags |-> <<"vague">>,
           greenFlags |-> <<>>, reasoning |-> "generic"] : sc \in JudgeScores}

\* JSON.parse(analysisText)
JSONparse(text) ==
    IF text.kind = "garbage" THEN [kind |-> "SyntaxError"] ELSE text

\* the Item of the analysis put
AnalysisItem(jobData, analysisJson, analysisId, timestamp) ==
    [id |-> analysisId,
     jobTitle |-> jobData.jobTitle,
     company |-> jobData.company,
     location |-> jobData.location,
     authenticityScore |-> analysisJson.authenticityScore,
     redFlags |-> analysisJson.redFlags,
     greenFlags |-> analysisJson.greenFlags,
     reasoning |-> analysisJson.reasoning,
     timestamp |-> timestamp,
     userId |-> IF jobData.userId = "" THEN "anonymous" ELSE jobData.userId]

AnalysisKey(analysisId) == <<"job-analyses", analysisId>>

AnalysisBody(jobData, analysisJson, timestamp) ==
    [jobData |-> jobData, analysis |-> analysisJson, timestamp |-> timestamp]

\* return { id: analysisId, ...analysisJson, timestamp }
AnalysisResult(analysisId, analysisJson, timestamp) ==
    [id |-> analysisId,
     authenticityScore |-> analysisJson.authenticityScore,
     redFlags |-> analysisJson.redFlags,
     greenFlags |-> analysisJson.greenFlags,
     reasoning |-> analysisJson.reasoning,
     timestamp |-> timestamp]

\* { ...analysisResult, patterns, similarJobs } with status 200
Combined(analysisResult, patternResult) ==
    [status |-> 200,
     analysis |-> analysisResult,
     patterns |-> patternResult.patterns,
     similarJobs |-> patternResult.similarJobs]

\* what the route has answered: the response it sent before calling the
\* detector, or the one the detector's return or throw leads to
Response ==
    IF http.stage = "detect" /\ pc[Slot] = "returned"
    THEN Combined(AnalysisResult(http.analysisId, http.analysisJson, http.timestamp),
                  outcome[Slot])
    ELSE IF http.stage = "detect" /\ pc[Slot] = "thrown"
    THEN ServerError(outcome[Slot].error)
    ELSE http.response

\* one whole successful jobAnalyzer.analyzeJob on the store st
RunAnalysis(st, jobData, analysisJson) ==
    [table |-> st.table,
     bucket |-> PutObject(st.bucket, AnalysisKey(st.nextId),
                          AnalysisBody(jobData, analysisJson, st.now)),
     now |-> st.now,
     nextId |-> st.nextId + 1,
     analyses |-> Append(st.analyses,
                         AnalysisItem(jobData, analysisJson, st.nextId, st.now))]

\* one whole successful request
RunRequest(st, jobData, analysisJson) ==
    LET a == RunAnalysis(st, jobData, analysisJson)
        d == RunCall(a, jobData)
    IN  [table |-> d.table, bucket |-> d.bucket, now |-> d.now, nextId |-> d.nextId,
         analyses |-> a.analyses]

RECURSIVE ReplayRequests(_, _)
ReplayRequests(st, script) ==
    IF script = <<>> THEN st
    ELSE ReplayRequests(RunRequest([st EXCEPT !.now = @ + Head(script).wait],
                                   Head(script).data, Head(script).analysisJson),
                        Tail(script))

GoodAnalysis ==
    [kind |-> "object", authenticityScore |-> Num(7), redFlags |-> <<"vague">>,
     greenFlags |-> <<>>, reasoning |-> "generic"]

PastRequests(n) ==
    ReplayRequests([table |-> <<>>, bucket |-> EmptyBucket, now |-> MaxSeed - n,
                    nextId |-> 1, analyses |-> <<>>],
                   [i \in 1..n |-> [wait |-> 1, data |-> PastPosting(i).data,
                                    analysisJson |-> GoodAnalysis]])

ControllerPastSizes == {0, 3}

InitController ==
    /\ \E n \in ControllerPastSizes :
        LET st == PastRequests(n)
        IN  /\ table = st.table
            /\ bucket = st.bucket
            /\ now = st.now
            /\ nextId = st.nextId
            /\ analyses = st.analyses
    /\ http = NoHttp
    /\ pc = [r \in Requests |-> "idle"]
    /\ args = [r \in Requests |-> NoArgs]
    /\ local = [r \in Requests |-> NoLocal]
    /\ outcome = [r \in Requests |-> NoOutcome]
    /\ scan = NoScan
    /\ NormIdle
    /\ RulesIdle

\* the request arrives and both services are started at once
ReceiveParallel(body) ==
    /\ http.stage = "idle"
    /\ pc[Slot] = "idle"
    /\ IF ~IsValid(body)
       THEN /\ http' = [http EXCEPT !.stage = "responded", !.body = body,
                                    !.response = BadRequest]
            /\ UNCHANGED <<pc, args, local>>
       ELSE /\ http' = [http EXCEPT !.stage = "judge", !.body = body,
                                    !.jobData = JobData(body, "auth0|u1"),
                                    !.issued = <<"judge", "detect">>]
            /\ args' = [args EXCEPT ![Slot] = JobData(body, "auth0|u1")]
            /\ local' = [local EXCEPT ![Slot] =
                            [NoLocal EXCEPT
                                !.normalizedCompany =
                                    normalizeCompanyName(JobData(body, "auth0|u1").company),
                                !.issued = <<"query">>]]
            /\ pc' = [pc EXCEPT ![Slot] = "query"]
    /\ UNCHANGED <<table, bucket, now, nextId, outcome, scan,
                   normIn, normRuns, analyses, rulesIn, rulesOut>>

\* the request arrives: an invalid body is answered 400, a valid one has
\* jobAnalyzer.analyzeJob called, which sends the prompt to the judge
Receive(body) ==
    /\ http.stage = "idle"
    /\ http' = IF ~IsValid(body)
               THEN [http EXCEPT !.stage = "responded", !.body = body,
                                 !.response = BadRequest]
               ELSE [http EXCEPT !.stage = "judge", !.body = body,
                                 !.jobData = JobData(body, "auth0|u1"),
                                 !.issued = <<"judge">>]
    /\ UNCHANGED <<table, bucket, now, nextId, pc, args, local, outcome, scan,
                   normIn, normRuns, analyses, rulesIn, rulesOut>>

\* the judge answers: the text is parsed, and the analysis put is sent; a
\* SyntaxError is replaced by the parse failure, any other error rethrown,
\* and the route answers 500
JudgeAnswers(text) ==
    /\ http.stage = "judge"
    /\ LET analysisJson == JSONparse(text)
       IN  IF analysisJson.kind = "SyntaxError"
           THEN /\ http' = [http EXCEPT !.stage = "responded",
                               !.response = ServerError("Failed to parse AI response. Please try again.")]
                /\ UNCHANGED nextId
           ELSE IF analysisJson.kind = "null"
           THEN /\ http' = [http EXCEPT !.stage = "responded",
                               !.response = ServerError("Cannot read properties of null")]
                /\ UNCHANGED nextId
           ELSE /\ http' = [http EXCEPT !.stage = "analysisPut",
                               !.analysisJson = analysisJson,
                               !.analysisId = nextId,
                               !.timestamp = now,
                               !.issued = Append(@, "analysisPut")]
                /\ nextId' = nextId + 1
    /\ UNCHANGED <<table, bucket, now, pc, args, local, outcome, scan,
                   normIn, normRuns, analyses, rulesIn, rulesOut>>

\* the judge call rejects
JudgeFails ==
    /\ http.stage = "judge"
    /\ http' = [http EXCEPT !.stage = "responded", !.response = ServerError("judge failed")]
    /\ UNCHANGED <<table, bucket, now, nextId, pc, args, local, outcome, scan,
                   normIn, normRuns, analyses, rulesIn, rulesOut>>

\* the analysis put succeeds: the item is stored, the putObject is sent
AnalysisPutOk ==
    /\ http.stage = "analysisPut"
    /\ analyses' = Append(analyses, AnalysisItem(http.jobData, http.analysisJson,
                                                 http.analysisId, http.timestamp))
    /\ http' = [http EXCEPT !.stage = "analysisPutObject",
                            !.issued = Append(@, "analysisPutObject")]
    /\ UNCHANGED <<table, bucket, now, nextId, pc, args, local, outcome, scan,
                   normIn, normRuns, rulesIn, rulesOut>>

\* the analysis put rejects
AnalysisPutFails ==
    /\ http.stage = "analysisPut"
    /\ http' = [http EXCEPT !.stage = "responded", !.response = ServerError("put failed")]
    /\ UNCHANGED <<table, bucket, now, nextId, pc, args, local, outcome, scan,
                   normIn, normRuns, analyses, rulesIn, rulesOut>>

\* the analysis putObject succeeds: analyzeJob returns, and the route calls
\* detectCompanyPatterns, which normalizes the name and sends its query
AnalysisPutObjectOk ==
    /\ http.stage = "analysisPutObject"
    /\ pc[Slot] = "idle"
    /\ bucket' = PutObject(bucket, AnalysisKey(http.analysisId),
                           AnalysisBody(http.jobData, http.analysisJson, http.timestamp))
    /\ http' = [http EXCEPT !.stage = "detect", !.issued = Append(@, "detect")]
    /\ args' = [args EXCEPT ![Slot] = http.jobData]
    /\ local' = [local EXCEPT ![Slot] =
                    [NoLocal EXCEPT
                        !.normalizedCompany = normalizeCompanyName(http.jobData.company),
                        !.issued = <<"query">>]]
    /\ pc' = [pc EXCEPT ![Slot] = "query"]
    /\ UNCHANGED <<table, now, nextId, outcome, scan, normIn, normRuns, analyses,
                   rulesIn, rulesOut>>

\* the analysis putObject rejects
AnalysisPutObjectFails ==
    /\ http.stage = "analysisPutObject"
    /\ http' = [http EXCEPT !.stage = "responded",
                            !.response = ServerError("putObject failed")]
    /\ UNCHANGED <<table, bucket, now, nextId, pc, args, local, outcome, scan,
                   normIn, normRuns, analyses, rulesIn, rulesOut>>

NextController ==
    \/ \E body \in Bodies : Receive(body)
    \/ \E text \in JudgeTexts : JudgeAnswers(text)
    \/ JudgeFails
    \/ AnalysisPutOk
    \/ AnalysisPutFails
    \/ AnalysisPutObjectOk
    \/ AnalysisPutObjectFails
    \/ QueryOk(Slot)
    \/ QueryFail(Slot)
    \/ PutOk(Slot)
    \/ PutFail(Slot)
    \/ PutObjectOk(Slot)
    \/ PutObjectFail(Slot)
    \/ Tick

SpecController == InitController /\ [][NextController]_vars

(***************************************************************************)
(* The pattern rules on their own: the summary computed from a history the *)
(* store may return.  The first record may have stayed open, or have no    *)
(* lastSeen; the gaps between postings alternate between two lengths.      *)
(***************************************************************************)
MaxHistory == 7

RuleGaps == {0, 1, 12, 14}              \* half days between consecutive postings
RuleOpens == {-1, 0, 180, 181, 200}     \* half days the first record stayed open; -1: no lastSeen
RuleClocks == {0, 200}                  \* half days since the last posting
RuleSimilar == {0, 1, 4}                \* how many records repeat the description
RuleOrders == {"ascending", "descending", "rotated", "swapped"}

FirstSeenOf(i, g1, g2) == 1 + (i \div 2) * g1 + ((i - 1) \div 2) * g2

RuleRecord(i, k, g1, g2, open) ==
    [id |-> i,
     companyName |-> AcmeBare,
     jobTitle |-> "Engineer",
     location |-> "Remote",
     jobDescription |-> IF i <= k THEN DescBase ELSE DescFar,
     firstSeen |-> FirstSeenOf(i, g1, g2),
     lastSeen |-> IF i > 1 THEN FirstSeenOf(i, g1, g2)
                  ELSE IF open = -1 THEN 0 ELSE FirstSeenOf(i, g1, g2) + open,
     similarJobs |-> <<>>,
     userId |-> "auth0|u1"]

Reverse(h) == [i \in 1..Len(h) |-> h[Len(h) + 1 - i]]

\* the order the store returns the records in
Reorder(order, h) ==
    IF Len(h) < 2 \/ order = "ascending" THEN h
    ELSE IF order = "descending" THEN Reverse(h)
    ELSE IF order = "rotated" THEN Tail(h) \o <<Head(h)>>
    ELSE SubSeq(h, 1, Len(h) - 2) \o <<h[Len(h)], h[Len(h) - 1]>>

RuleInput(n, k, g1, g2, open, c, order) ==
    LET ascending == [i \in 1..n |-> RuleRecord(i, k, g1, g2, open)]
    IN  [history |-> Reorder(order, ascending),
         ascending |-> ascending,
         jobDescription |-> DescBase,
         clock |-> FirstSeenOf(IF n = 0 THEN 1 ELSE n, g1, g2) + c]

RuleInputs ==
    { RuleInput(n, k, g1, g2, open, c, order) :
        n \in 0..MaxHistory, k \in RuleSimilar, g1 \in RuleGaps, g2 \in RuleGaps,
        open \in RuleOpens, c \in RuleClocks, order \in RuleOrders }

InitRules ==
    /\ rulesIn \in RuleInputs
    /\ rulesOut = <<>>
    /\ RequestsIdle
    /\ NormIdle
    /\ ControllerIdle

\* patterns = the summary of the history
ApplyRules ==
    /\ rulesOut = <<>>
    /\ rulesOut' = <<Patterns(AcmeBare, rulesIn.history, rulesIn.jobDescription,
                              rulesIn.clock)>>
    /\ UNCHANGED <<table, bucket, now, nextId, pc, args, local, outcome, scan,
                   normIn, normRuns, http, analyses, rulesIn>>

NextRules == ApplyRules

SpecRules == InitRules /\ [][NextRules]_vars

(***************************************************************************)
(* Properties                                                              *)
(***************************************************************************)
\* the requests whose query has answered: their locals hold the summary
Answered(r) == local[r].jobId # 0

AcmeKey == <<"a", "c", "m", "e">>

\* C1: normalizing a key again gives the same key:
\* normalizeCompanyName(normalizeCompanyName(s)) = normalizeCompanyName(s)
C1_Idempotent == Len(normRuns) = 2 => normRuns[2] = normRuns[1]

\* C2: "Acme, Inc.", "acme inc", "ACME   INC", "ACME INC" and "acme" all get
\* the key "acme": a request under any of them reads every record stored
\* under any of them, and its own record is stored under that key
C2_SameCompanyKey ==
    [][\A r \in Requests :
        /\ (pc[r] = "query" /\ pc'[r] = "put" /\ args[r].company \in AcmeNames)
            => /\ local'[r].normalizedCompany = AcmeKey
               /\ local'[r].companyHistory
                    = SelectSeq(table, LAMBDA rec : rec.companyName = AcmeKey)
        /\ (pc[r] = "put" /\ pc'[r] = "putObject" /\ args[r].company \in AcmeNames)
            => table'[Len(table')].companyName = AcmeKey]_vars

\* a request under one spelling has read the records stored under the others
C2_Witness ==
    \E r \in Requests :
        /\ pc[r] = "returned"
        /\ args[r].company = AcmeUpperSpaced
        /\ Len(local[r].companyHistory) = MaxSeed + 1
        /\ \E q \in Requests : pc[q] = "returned" /\ args[q].company = AcmeBare

\* C3: with an empty history the summary is confidenceScore 10, similarJobCount 0,
\* longestOpenDays 0, recycledDescriptions false and no suspicious pattern
C3_EmptyHistory ==
    \A r \in Requests :
        (Answered(r) /\ local[r].companyHistory = <<>>)
            => /\ local[r].patterns.confidenceScore = 10
               /\ local[r].patterns.similarJobCount = 0
               /\ local[r].patterns.longestOpenDays = 0
               /\ local[r].patterns.recycledDescriptions = FALSE
               /\ local[r].patterns.suspiciousPatterns = <<>>
               /\ (pc[r] = "returned" => outcome[r].patterns = local[r].patterns)

C3_Witness ==
    \E r \in Requests :
        /\ pc[r] = "returned"
        /\ local[r].companyHistory = <<>>
        /\ table # <<>>
        /\ outcome[r].patterns.confidenceScore = 10

\* C4: the confidenceScore of every summary is at most 10 and at least 1
C4_ConfidenceOnScale ==
    \A r \in Requests :
        /\ Answered(r) => local[r].patterns.confidenceScore \in 1..10
        /\ outcome[r].kind = "ok" => outcome[r].patterns.confidenceScore \in 1..10

\* a summary on which every rule a built store can fire has fired
C4_Witness ==
    \E r \in Requests :
        /\ outcome[r].kind = "ok"
        /\ outcome[r].patterns.confidenceScore = 7
        /\ Len(outcome[r].patterns.suspiciousPatterns) = 2

StrictlyAbove85(r) ==
    { i \in 1..Len(local[r].companyHistory) :
        LET sim == SimilarityTable[args[r].jobDescription]
                                  [local[r].companyHistory[i].jobDescription]
        IN  100 * sim[1] > 85 * sim[2] }

ExactlyAt85(r) ==
    { i \in 1..Len(local[r].companyHistory) :
        LET sim == SimilarityTable[args[r].jobDescription]
                                  [local[r].companyHistory[i].jobDescription]
        IN  100 * sim[1] = 85 * sim[2] }

\* C6: similarJobCount is the number of history records whose similarity is
\* strictly above 0.85, and recycledDescriptions holds exactly when it exceeds 3
C6_SimilarCount ==
    \A r \in Requests :
        Answered(r) =>
            /\ local[r].patterns.similarJobCount = Cardinality(StrictlyAbove85(r))
            /\ Len(local[r].similarJobs) = local[r].patterns.similarJobCount
            /\ local[r].patterns.recycledDescriptions
                 = (local[r].patterns.similarJobCount > 3)
            /\ (Len(local[r].companyHistory) = 4
                    /\ Cardinality(StrictlyAbove85(r)) = 4)
                 => /\ local[r].patterns.similarJobCount = 4
                    /\ local[r].patterns.recycledDescriptions
            /\ (Len(local[r].companyHistory) = 3
                    /\ Cardinality(StrictlyAbove85(r)) = 3)
                 => ~local[r].patterns.recycledDescriptions

\* four records above the threshold and one exactly at it: four are counted
C6_Witness ==
    \E r \in Requests :
        /\ Answered(r)
        /\ ExactlyAt85(r) # {}
        /\ local[r].patterns.similarJobCount = 4
        /\ local[r].patterns.recycledDescriptions

\* C7: the companies are returned by non-increasing suspicionScore
C7_Descending ==
    scan.status = "ok" =>
        \A i \in 1..(Len(scan.companies) - 1) :
            scan.companies[i].suspicionScore >= scan.companies[i + 1].suspicionScore

\* the company met second in the scan is returned first, its score being higher
C7_Witness ==
    /\ scan.status = "ok"
    /\ Len(scan.companies) = 2
    /\ scan.companies[1].suspicionScore > scan.companies[2].suspicionScore
    /\ scan.companies[1].companyName = normalizeCompanyName(GlobexCorp)

\* round(min(10, similarPostingsCount / 2) + bonus) of an entry, the bonus being
\* (1 - titleRatio) * 5 when titleRatio < 0.5 and postingCount > 5
ScoreWithBonus(e) ==
    LET p == e.postingCount
        t == Len(e.titles)
        half == Min(20, e.similarPostingsCount)
    IN  IF 2 * t < p /\ p > 5
        THEN RoundDiv(half * p + 10 * (p - t), 2 * p)
        ELSE RoundDiv(half, 2)

\* C8: the suspicionScore of every company is
\* round(min(10, similarPostingsCount / 2) + bonus)
C8_ScoreFormula ==
    scan.status = "ok" =>
        \A i \in 1..Len(scan.companies) :
            scan.companies[i].suspicionScore = ScoreWithBonus(scan.companies[i])

\* C9: a call that fails on its record put or its snapshot put leaves no
\* record of its own in the table
C9_NoPartialWrite ==
    \A r \in Requests :
        (pc[r] = "thrown" /\ outcome[r].error \in {"put failed", "putObject failed"})
            => \A i \in 1..Len(table) : table[i].id # local[r].jobId

\* C10: when the history read or the record put fails the call throws that
\* error and returns no summary, no store request is sent twice, and after a
\* failed read no write is sent
C10_FailurePropagates ==
    \A r \in Requests :
        /\ \E n \in 0..3 : local[r].issued = SubSeq(<<"query", "put", "putObject">>, 1, n)
        /\ (pc[r] = "thrown" /\ local[r].issued = <<"query">>)
            => /\ outcome[r] = [kind |-> "error", error |-> "query failed"]
               /\ ~Answered(r)
        /\ (pc[r] = "thrown" /\ local[r].issued = <<"query", "put">>)
            => /\ outcome[r] = [kind |-> "error", error |-> "put failed"]
               /\ \A i \in 1..Len(table) : table[i].id # local[r].jobId
        /\ outcome[r].kind = "ok" => pc[r] = "returned"

\* one request has failed on its read and the other on its put
C10_Witness ==
    \E r, q \in Requests :
        /\ pc[r] = "thrown" /\ local[r].issued = <<"query">>
        /\ pc[q] = "thrown" /\ local[q].issued = <<"query", "put">>

\* the records of the table stored under a key
Under(items, key) == SelectSeq(items, LAMBDA rec : rec.companyName = key)

\* the place of the record with this id in the table, 0 if it is not there
PlaceOf(id) ==
    IF \E i \in 1..Len(table) : table[i].id = id
    THEN CHOOSE i \in 1..Len(table) : table[i].id = id
    ELSE 0

\* C11: a call's history, summary and similar jobs come from the records under
\* its own key alone, and a step of a call for another company changes neither
\* the records under that key nor the call's locals and outcome
C11_CompaniesIndependent ==
    [][\A r \in Requests :
        /\ (pc[r] = "query" /\ pc'[r] = "put")
            => LET key == local[r].normalizedCompany
                   own == Under(table, key)
               IN  /\ local'[r].companyHistory = own
                   /\ local'[r].patterns = Patterns(key, own, args[r].jobDescription, now)
                   /\ local'[r].similarJobs = SimilarJobs(own, args[r].jobDescription)
        /\ \A q \in Requests :
            (/\ pc[r] # "idle"
             /\ pc[q] # pc'[q]
             /\ local'[q].normalizedCompany # local[r].normalizedCompany)
                => /\ Under(table', local[r].normalizedCompany)
                        = Under(table, local[r].normalizedCompany)
                   /\ local'[r] = local[r]
                   /\ outcome'[r] = outcome[r]]_vars

\* two requests for different companies have both returned, the second one's
\* record having been put between the first one's read and its put
C11_Witness ==
    \E r, q \in Requests :
        /\ pc[r] = "returned" /\ pc[q] = "returned"
        /\ local[r].normalizedCompany # local[q].normalizedCompany
        /\ local[r].jobId < local[q].jobId
        /\ PlaceOf(local[q].jobId) # 0
        /\ PlaceOf(local[q].jobId) < PlaceOf(local[r].jobId)
        /\ local[r].companyHistory # <<>>

\* the request has put its record
HasPut(r) == pc[r] \in {"putObject", "returned"} \/ (pc[r] = "thrown" /\ Len(local[r].issued) = 3)

\* C12: when two calls for one company have read the same history and both
\* have put, both records are in the table, neither record lists the other,
\* and both summaries count only the history read, which no run of the two
\* calls one after the other gives: there the later call counts the earlier record
C12_SameCompanyRace ==
    \A r, q \in Requests :
        (/\ r # q
         /\ HasPut(r) /\ HasPut(q)
         /\ local[r].normalizedCompany = local[q].normalizedCompany)
            => /\ PlaceOf(local[r].jobId) # 0
               /\ PlaceOf(local[q].jobId) # 0
               /\ PlaceOf(local[r].jobId) # PlaceOf(local[q].jobId)
               /\ (local[r].companyHistory = local[q].companyHistory)
                    => /\ \A i \in 1..Len(table[PlaceOf(local[r].jobId)].similarJobs) :
                            table[PlaceOf(local[r].jobId)].similarJobs[i] # local[q].jobId
                       /\ local[r].patterns.recentPostings = Len(local[r].companyHistory)
                       /\ local[q].patterns.recentPostings = local[r].patterns.recentPostings
                       /\ Len(Under(table, local[r].normalizedCompany))
                            = local[r].patterns.recentPostings + 2
               /\ (\E i \in 1..Len(local[q].companyHistory) :
                        local[q].companyHistory[i].id = local[r].jobId)
                    => /\ local[q].patterns.recentPostings > local[r].patterns.recentPostings
                       /\ local[q].companyHistory # local[r].companyHistory

\* both calls, with the same description, read the same three records and returned
C12_Witness ==
    \E r, q \in Requests :
        /\ r # q
        /\ pc[r] = "returned" /\ pc[q] = "returned"
        /\ local[r].normalizedCompany = local[q].normalizedCompany
        /\ args[r].jobDescription = args[q].jobDescription
        /\ local[r].companyHistory = local[q].companyHistory
        /\ Len(local[r].companyHistory) = 3
        /\ local[r].patterns.similarJobCount = 3
        /\ local[q].patterns.similarJobCount = 3

\* C13: once a later call has found a stored record similar, that record's
\* lastSeen is later than its firstSeen
C13_LastSeenUpdated ==
    \A r \in Requests :
        pc[r] = "returned" =>
            \A i \in 1..Len(table) :
                (/\ \E j \in 1..Len(local[r].similarJobs) :
                        local[r].similarJobs[j].id = table[i].id
                 /\ local[r].timestamp > table[i].firstSeen)
                    => table[i].lastSeen > table[i].firstSeen

\* C14: every record of the table has firstSeen <= lastSeen
C14_FirstSeenBeforeLastSeen ==
    \A i \in 1..Len(table) :
        /\ table[i].lastSeen # 0
        /\ table[i].firstSeen <= table[i].lastSeen

\* a request has stored its record after the clock moved
C14_Witness ==
    \E r \in Requests :
        /\ pc[r] = "returned"
        /\ PlaceOf(local[r].jobId) # 0
        /\ table[PlaceOf(local[r].jobId)].firstSeen = MaxSeed + 1
        /\ Len(table) > 1

\* C15: the put of a call adds one record, under an id no stored record has,
\* and leaves the stored records as they were; the ids the new record lists
\* are ids of records of its company in the history the call read; no other
\* step changes the table
C15_AppendOnly ==
    [][/\ \A r \in Requests :
            (pc[r] = "put" /\ pc'[r] = "putObject")
                => /\ Len(table') = Len(table) + 1
                   /\ SubSeq(table', 1, Len(table)) = table
                   /\ LET new == table'[Len(table')]
                      IN  /\ new.id = local[r].jobId
                          /\ \A i \in 1..Len(table) : table[i].id # new.id
                          /\ \A j \in 1..Len(new.similarJobs) :
                                \E k \in 1..Len(local[r].companyHistory) :
                                    /\ local[r].companyHistory[k].id = new.similarJobs[j]
                                    /\ local[r].companyHistory[k].companyName = new.companyName
       /\ (\A r \in Requests : ~(pc[r] = "put" /\ pc'[r] = "putObject"))
            => table' = table]_vars

\* a returned call's record lists earlier records, all of them still stored
C15_Witness ==
    \E r \in Requests :
        /\ pc[r] = "returned"
        /\ PlaceOf(local[r].jobId) = Len(table)
        /\ Len(table[Len(table)].similarJobs) = 4
        /\ \E q \in Requests : q # r /\ pc[q] = "returned" /\ PlaceOf(local[q].jobId) = Len(table) - 1

\* a body field that is missing or empty
Missing(v) == v = Undefined \/ v = EmptyText

RequiredMissing(body) ==
    Missing(body.jobTitle) \/ Missing(body.company) \/ Missing(body.jobDescription)

\* C16: a request that lacks jobTitle, company or jobDescription is answered
\* 400 at once, no collaborator is called and no store changes, then or later;
\* a request that has the three is passed to the judge whatever its location
C16_InvalidRejected ==
    [][/\ (http.stage = "idle" /\ http'.stage # "idle" /\ RequiredMissing(http'.body))
            => /\ http'.stage = "responded"
               /\ http'.response.status = 400
               /\ http'.issued = <<>>
               /\ pc'[Slot] = "idle"
               /\ table' = table /\ analyses' = analyses /\ bucket' = bucket
       /\ (http.stage = "responded" /\ http.response.status = 400)
            => /\ http' = http /\ pc' = pc /\ local' = local
               /\ table' = table /\ analyses' = analyses /\ bucket' = bucket
       /\ (http.stage = "idle" /\ http'.stage # "idle" /\ ~RequiredMissing(http'.body))
            => /\ http'.stage = "judge"
               /\ http'.response = NoResponse]_vars

\* a request with an empty company was rejected over stores that hold records
C16_Witness ==
    /\ http.stage = "responded"
    /\ Response.status = 400
    /\ http.body.company = EmptyText
    /\ Truthy(http.body.jobTitle)
    /\ Truthy(http.body.jobDescription)
    /\ Len(table) = 3
    /\ Len(analyses) = 3

\* an authenticityScore that is not a number of 1..10
ScoreInvalid(sc) == sc.kind # "number" \/ sc.value \notin 1..10

\* C17: when the judge's answer carries an authenticityScore that is no number
\* of 1..10, no analysis item with it is stored and the request is not
\* answered 200
C17_InvalidScoreRejected ==
    (http.analysisJson.kind = "object" /\ ScoreInvalid(http.analysisJson.authenticityScore))
        => /\ \A i \in 1..Len(analyses) : analyses[i].id # http.analysisId
           /\ Response.status # 200

\* 1 if the condition holds, else 0
Bit(b) == IF b THEN 1 ELSE 0

OpenFires(p) == p.longestOpenDays > 90
RecycledFires(p) == p.similarJobCount > 3
FrequencyFires(p) == p.averagePostingFrequency < 7 /\ p.recentPostings > 5

\* the findings of the rules that fire, in the order open duration, recycled
\* descriptions, posting frequency
FindingsOf(p) ==
    (IF OpenFires(p)
     THEN <<[text |-> "Position open for N days without being filled",
             n |-> p.longestOpenDays]>> ELSE <<>>)
    \o (IF RecycledFires(p)
        THEN <<[text |-> "Multiple similar job postings (N) detected",
                n |-> p.similarJobCount]>> ELSE <<>>)
    \o (IF FrequencyFires(p)
        THEN <<[text |-> "Unusually high frequency of new job postings"]>> ELSE <<>>)

\* the history is one record that repeats the description and was open 100 days
OneSimilarOpenHundred ==
    /\ Len(rulesIn.history) = 1
    /\ rulesIn.history[1].jobDescription = rulesIn.jobDescription
    /\ rulesIn.history[1].lastSeen - rulesIn.history[1].firstSeen = 100 * DayLength

\* C18: confidenceScore is 10 less 2 for the open-duration rule, 2 for the
\* recycled-descriptions rule and 1 for the frequency rule, each counted when
\* its own condition holds; suspiciousPatterns is one finding per rule that
\* fired, in that order; one similar record open 100 days gives
\* longestOpenDays >= 100, the open-duration finding alone and a score of at
\* most 8
C18_RulesStack ==
    rulesOut # <<>> =>
        LET p == rulesOut[1]
        IN  /\ p.confidenceScore = 10 - 2 * Bit(OpenFires(p)) - 2 * Bit(RecycledFires(p))
                                      - Bit(FrequencyFires(p))
            /\ p.suspiciousPatterns = FindingsOf(p)
            /\ p.recycledDescriptions = RecycledFires(p)
            /\ OneSimilarOpenHundred
                => /\ p.longestOpenDays >= 100
                   /\ p.similarJobCount = 1
                   /\ Len(p.suspiciousPatterns) = 1
                   /\ p.suspiciousPatterns[1].text = "Position open for N days without being filled"
                   /\ p.confidenceScore <= 8

\* the summary of one similar record open 100 days
C18_Witness ==
    /\ rulesOut # <<>>
    /\ OneSimilarOpenHundred

\* the whole days of the gaps between consecutive records of a history in
\* firstSeen order
RECURSIVE GapDays(_)
GapDays(ascending) ==
    IF Len(ascending) < 2 THEN 0
    ELSE LET halfDays == ascending[2].firstSeen - ascending[1].firstSeen
         IN  (halfDays + DayLength - 1) \div DayLength + GapDays(Tail(ascending))

\* x / d rounded to the nearest integer, halves upwards
Rounded(x, d) == CHOOSE q \in 0..x : 2 * d * q <= 2 * x + d /\ 2 * x + d < 2 * d * (q + 1)

\* C19: with two records or more, averagePostingFrequency is the sum of the
\* day gaps in firstSeen order divided by count - 1 and rounded, whatever the
\* order the store returned the records in; with fewer it is 0 and the
\* frequency rule does not fire
C19_AverageFrequency ==
    rulesOut # <<>> =>
        LET p == rulesOut[1]
            count == Len(rulesIn.history)
        IN  /\ count >= 2
                => p.averagePostingFrequency = Rounded(GapDays(rulesIn.ascending), count - 1)
            /\ count < 2
                => /\ p.averagePostingFrequency = 0
                   /\ ~\E i \in 1..Len(p.suspiciousPatterns) :
                        p.suspiciousPatterns[i].text = "Unusually high frequency of new job postings"

\* three records the store returned out of order, whose gaps of 6 and 7 days
\* average to 6.5 and round to 7
C19_Witness ==
    /\ rulesOut # <<>>
    /\ Len(rulesIn.history) = 3
    /\ rulesIn.history # rulesIn.ascending
    /\ rulesIn.history[1].firstSeen > rulesIn.history[3].firstSeen
    /\ GapDays(rulesIn.ascending) = 13
    /\ rulesOut[1].averagePostingFrequency = 7

\* C20 as stated: when all three rules fire on one call, the confidenceScore
\* is below 1
C20_BelowFloor ==
    (rulesOut # <<>> /\ Len(rulesOut[1].suspiciousPatterns) = 3)
        => rulesOut[1].confidenceScore < 1

\* C20: the confidenceScore is at least 5, and is 5 exactly when all three
\* rules fired
C20_FloorIsFive ==
    rulesOut # <<>> =>
        /\ rulesOut[1].confidenceScore >= 5
        /\ rulesOut[1].confidenceScore = 5 <=> Len(rulesOut[1].suspiciousPatterns) = 3

\* all three rules fired
C20_Witness ==
    /\ rulesOut # <<>>
    /\ Len(rulesOut[1].suspiciousPatterns) = 3
    /\ rulesOut[1].confidenceScore = 5

\* the places of the records of the table with more than 3 similar ids
Listed == { i \in 1..Len(table) : Len(table[i].similarJobs) > 3 }

ListedOf(name) == { i \in Listed : table[i].companyName = name }

RECURSIVE SimilarIdsIn(_)
SimilarIdsIn(places) ==
    IF places = {} THEN 0
    ELSE LET i == CHOOSE x \in places : TRUE
         IN  Len(table[i].similarJobs) + SimilarIdsIn(places \ {i})

\* the elements of an array, and whether none is repeated
Elements(a) == { a[i] : i \in 1..Len(a) }
Distinct(a) == Cardinality(Elements(a)) = Len(a)

\* C21: once the scan has answered, the companies returned are one entry for
\* each companyName among the records with more than 3 similar ids; an
\* entry's postingCount is the number of those records, similarPostingsCount
\* the sum of their similar ids, titles and locations their distinct job
\* titles and locations
C21_OneEntryPerCompany ==
    (scan.status = "ok" \/ (scan.status = "error" /\ scan.error # "scan failed"))
        => /\ scan.status = "ok"
           /\ { scan.companies[i].companyName : i \in 1..Len(scan.companies) }
                = { table[i].companyName : i \in Listed }
           /\ \A i \in 1..Len(scan.companies) :
                LET e == scan.companies[i]
                    own == ListedOf(e.companyName)
                IN  /\ \A j \in 1..Len(scan.companies) :
                        scan.companies[j].companyName = e.companyName => j = i
                    /\ e.postingCount = Cardinality(own)
                    /\ e.similarPostingsCount = SimilarIdsIn(own)
                    /\ Distinct(e.titles)
                    /\ Elements(e.titles) = { table[k].jobTitle : k \in own }
                    /\ Distinct(e.locations)
                    /\ Elements(e.locations) = { table[k].location : k \in own }

\* the same, for the scans whose grouping loop ran to its end
GroupedWhenReturned ==
    scan.status = "ok" => C21_OneEntryPerCompany

\* C22: every record of the table has lastSeen equal to firstSeen, no step
\* changes the firstSeen or the lastSeen of a stored record, and every call
\* that has computed its summary has longestOpenDays 0, no open-duration
\* finding and a confidenceScore of 7, 8, 9 or 10
C22_NeverOpen ==
    /\ [](/\ \A i \in 1..Len(table) : table[i].lastSeen = table[i].firstSeen
          /\ \A r \in Requests :
                Answered(r) =>
                    /\ local[r].patterns.longestOpenDays = 0
                    /\ \A j \in 1..Len(local[r].patterns.suspiciousPatterns) :
                        local[r].patterns.suspiciousPatterns[j].text
                            # "Position open for N days without being filled"
                    /\ local[r].patterns.confidenceScore \in {7, 8, 9, 10})
    /\ [][\A i \in 1..Len(table) :
            /\ Len(table') >= Len(table)
            /\ table'[i].id = table[i].id
            /\ table'[i].firstSeen = table[i].firstSeen
            /\ table'[i].lastSeen = table[i].lastSeen]_vars

\* a call made after the clock moved, over the whole past, the oldest record
\* of which was first seen days before
C22_Witness ==
    \E r \in Requests :
        /\ pc[r] = "returned"
        /\ Len(local[r].companyHistory) >= MaxSeed
        /\ \E i \in 1..Len(local[r].companyHistory) :
            local[r].timestamp >= local[r].companyHistory[i].firstSeen + 2 * DayLength
        /\ local[r].patterns.longestOpenDays = 0

\* the analysis item of the request is stored
AnalysisStored == \E i \in 1..Len(analyses) : analyses[i].id = http.analysisId

\* the posting record of the request is stored
PostingStored == \E i \in 1..Len(table) : table[i].id = local[Slot].jobId

====
